---- MODULE Spec2Model ----
(***************************************************************************)
(* Block ingestion of substrate_script.py against the Django models of     *)
(* myapp/models.py.                                                        *)
(*                                                                         *)
(* The chain node is the environment: `chain` maps a block number to what  *)
(* the node returns for it and never changes.  Every instance of main()    *)
(* is a process; the three tables are the shared state.  Each database     *)
(* statement (autocommit, no transaction is opened by the script) is one   *)
(* atomic step, so instances interleave between statements.                *)
(*                                                                         *)
(* Python values: a dict is a record whose DOMAIN is the set of its keys   *)
(* (an absent key is an absent field); a value that may be None is kept as *)
(* a sequence of length at most one (None is <<>>, v is <<v>>).            *)
(***************************************************************************)
EXTENDS Integers, Sequences, FiniteSets, TLC

VARIABLES chain, blocks, calls, extrinsics, pc, block_number, block_instance, idx,
          call_type, call_index_instance, err

vars == <<chain, blocks, calls, extrinsics, pc, block_number, block_instance, idx,
          call_type, call_index_instance, err>>

tables == <<blocks, calls, extrinsics>>

\* ---------------------------------------------------------------- bounds
NumRuns == 2
MaxExt == 2
MaxEv == 2

Runs == 1..NumRuns

\* ------------------------------------------------------- Python values
None == <<>>
Some(v) == <<v>>

\* d.get(k): the value under k, None when the key is absent
Get(d, k) == IF k \in DOMAIN d THEN Some(d[k]) ELSE None

\* getattr(obj, 'value', None)
ValueOf(obj) == Get(obj, "value")

\* `if call_index:` never taken: the Call step is left out
TruthyNever(o) == FALSE

\* truth of an optional string: None and "" are both false
Truthy(o) == o # None /\ o # Some("")

\* every sequence over S of length at most n
SeqsUpTo(S, n) == UNION {[1..k -> S] : k \in 0..n}

\* ------------------------------------------------- f"{block_number}-{idx:04}"
Digit(d) == CASE d = 0 -> "0" [] d = 1 -> "1" [] d = 2 -> "2" [] d = 3 -> "3"
              [] d = 4 -> "4" [] d = 5 -> "5" [] d = 6 -> "6" [] d = 7 -> "7"
              [] d = 8 -> "8" [] d = 9 -> "9"

RECURSIVE Decimal(_)
Decimal(n) == IF n < 10 THEN <<Digit(n)>> ELSE Append(Decimal(n \div 10), Digit(n % 10))

RECURSIVE ZeroPad(_, _)
ZeroPad(s, width) == IF Len(s) >= width THEN s ELSE ZeroPad(<<"0">> \o s, width)

PadWidth == 4

FormatIdx(bn, i) == Decimal(bn) \o <<"-">> \o ZeroPad(Decimal(i), PadWidth)

\* --------------------------------------------------- outcome of a call
\* exc is "" when the call returns, else the name of the exception it raises
Return(v) == [exc |-> "", value |-> v]
Raise(e) == [exc |-> e, value |-> None]

\* ------------------------------------------- extract_block_timestamp
\* datetime.fromtimestamp(ms / 1000, tz=pytz.UTC)
FromTimestampMs(ms) == [seconds |-> ms \div 1000, microseconds |-> (ms % 1000) * 1000]

\* the return statement of line 57: call['call_args'][0]['value']
TimestampOfCall(call) ==
    IF "call_args" \notin DOMAIN call THEN Raise("KeyError")
    ELSE IF Len(call.call_args) = 0 THEN Raise("IndexError")
    ELSE IF "value" \notin DOMAIN call.call_args[1] THEN Raise("KeyError")
    ELSE Return(Some(FromTimestampMs(call.call_args[1].value)))

\* the body of the for loop for the extrinsic at (1-based) place i, and the rest
RECURSIVE TimestampFrom(_, _)
TimestampFrom(exts, i) ==
    IF i > Len(exts) THEN Return(None)
    ELSE LET extrinsic_value == ValueOf(exts[i]) IN
         IF extrinsic_value # None /\ "call" \in DOMAIN extrinsic_value[1]
         THEN LET call == extrinsic_value[1].call IN
              IF "call_function" \notin DOMAIN call THEN Raise("KeyError")
              ELSE IF call.call_function # "set" THEN TimestampFrom(exts, i + 1)
              ELSE IF "call_module" \notin DOMAIN call THEN Raise("KeyError")
              ELSE IF call.call_module # "Timestamp" THEN TimestampFrom(exts, i + 1)
              ELSE TimestampOfCall(call)
         ELSE TimestampFrom(exts, i + 1)

\* the scan keeps the last matching extrinsic instead of the first
TimestampOfLastMatch(exts) ==
    TimestampFrom([k \in 1..Len(exts) |-> exts[Len(exts) + 1 - k]], 1)

extract_block_timestamp(exts) == TimestampFrom(exts, 1)

\* ------------------------------------------- extract_extrinsic_events
\* the scan takes every decoded event, whatever its position
EventMatchesAnyPosition(event, i) == ValueOf(event) # None

\* does the event take part in the scan for position i (line 146)
EventMatches(event, i) ==
    LET event_value == ValueOf(event) IN
    event_value # None /\ Get(event_value[1], "extrinsic_idx") = Some(i)

SuccessId == "ExtrinsicSuccess"

\* the loop puts each matching event in front of the list instead of at its end
RECURSIVE EventsFromPrepending(_, _, _, _, _)
EventsFromPrepending(events, i, k, extrinsic_events, extrinsic_success) ==
    IF k > Len(events)
    THEN Return([events |-> extrinsic_events, success |-> extrinsic_success])
    ELSE IF ~EventMatches(events[k], i)
    THEN EventsFromPrepending(events, i, k + 1, extrinsic_events, extrinsic_success)
    ELSE LET event_value == events[k].value IN
         IF "event_id" \notin DOMAIN event_value THEN Raise("KeyError")
         ELSE EventsFromPrepending(events, i, k + 1, <<event_value>> \o extrinsic_events,
                                   extrinsic_success \/ event_value.event_id = SuccessId)

\* the loop from (1-based) place k on, with the list and the flag built so far
RECURSIVE EventsFrom(_, _, _, _, _)
EventsFrom(events, i, k, extrinsic_events, extrinsic_success) ==
    IF k > Len(events)
    THEN Return([events |-> extrinsic_events, success |-> extrinsic_success])
    ELSE IF ~EventMatches(events[k], i)
    THEN EventsFrom(events, i, k + 1, extrinsic_events, extrinsic_success)
    ELSE LET event_value == events[k].value IN
         IF "event_id" \notin DOMAIN event_value THEN Raise("KeyError")
         ELSE EventsFrom(events, i, k + 1, Append(extrinsic_events, event_value),
                         extrinsic_success \/ event_value.event_id = SuccessId)

extract_extrinsic_events(events, i) == EventsFrom(events, i, 1, <<>>, FALSE)

\* ------------------------------------------ extract_extrinsic_details
EmptyDict == [k \in {} |-> k]

\* d.get(k, default)
GetOr(d, k, default) == IF k \in DOMAIN d THEN d[k] ELSE default

\* only the first argument is looked at
NetuidOfFirstArgument(call_args, k) ==
    IF Len(call_args) = 0 THEN Return(None)
    ELSE IF "name" \notin DOMAIN call_args[1] THEN Raise("KeyError")
    ELSE IF call_args[1].name # "netuid" THEN Return(None)
    ELSE IF "value" \notin DOMAIN call_args[1] THEN Raise("KeyError")
    ELSE Return(Some(call_args[1].value))

\* next((arg['value'] for arg in call_args if arg['name'] == 'netuid'), None)
RECURSIVE NetuidFrom(_, _)
NetuidFrom(call_args, k) ==
    IF k > Len(call_args) THEN Return(None)
    ELSE IF "name" \notin DOMAIN call_args[k] THEN Raise("KeyError")
    ELSE IF call_args[k].name # "netuid" THEN NetuidFrom(call_args, k + 1)
    ELSE IF "value" \notin DOMAIN call_args[k] THEN Raise("KeyError")
    ELSE Return(Some(call_args[k].value))

extract_extrinsic_details(extrinsic_value) ==
    LET call == GetOr(extrinsic_value, "call", EmptyDict)
        call_args == GetOr(call, "call_args", <<>>)
        netuid == NetuidFrom(call_args, 1)
    IN  IF netuid.exc # "" THEN netuid
        ELSE Return([extrinsic_type |-> <<Get(call, "call_index"),
                                          Get(call, "call_function"),
                                          Get(call, "call_module")>>,
                     netuid |-> netuid.value])

\* ------------------------------------------------------ the database
\* AutoField primary key; no row is ever deleted
NextId(tbl) == Cardinality(tbl) + 1

\* Block: block_id and block_hash declared without unique=True
BlockNeverConflicts(tbl, row) == TRUE

\* Block.block_hash declared without unique=True
BlockUniqueNumberOnly(tbl, row) == \A b \in tbl : b.block_id # row.block_id

\* Block: block_id unique, block_hash unique
BlockUnique(tbl, row) ==
    \A b \in tbl : b.block_id # row.block_id /\ b.block_hash # row.block_hash

\* Block.objects.get_or_create(block_id=..., defaults=...) in place of create
BlockGetOrCreate(tbl, fields) ==
    LET row == [id |-> NextId(tbl)] @@ fields
        found == {b \in tbl : b.block_id = fields.block_id}
    IN  IF found # {} THEN Return(Some(CHOOSE b \in found : TRUE))
        ELSE IF BlockUnique(tbl, row) THEN Return(Some(row)) ELSE Raise("IntegrityError")

\* Block.objects.create(**fields)
BlockInsert(tbl, fields) ==
    LET row == [id |-> NextId(tbl)] @@ fields IN
    IF BlockUnique(tbl, row) THEN Return(Some(row)) ELSE Raise("IntegrityError")

\* Call.call_index declared without unique=True
CallNotUnique(tbl, row) == TRUE

\* Call: call_index unique
CallUnique(tbl, row) == \A c \in tbl : c.call_index # row.call_index

\* Call.objects.create(**fields)
CallInsert(tbl, fields) ==
    LET row == [id |-> NextId(tbl)] @@ fields IN
    IF CallUnique(tbl, row) THEN Return(Some(row)) ELSE Raise("IntegrityError")

\* list(Call.objects.values_list('call_index', flat=True)), as far as `in` reads it
CallValuesList(tbl) == {c.call_index : c \in tbl}

\* Call.objects.get(call_index=ci)
CallGet(tbl, ci) ==
    LET found == {c \in tbl : c.call_index = ci} IN
    IF found = {} THEN Raise("DoesNotExist")
    ELSE IF Cardinality(found) > 1 THEN Raise("MultipleObjectsReturned")
    ELSE Return(Some(CHOOSE c \in found : TRUE))

\* Extrinsic.call_index declared with null=True
ExtrinsicHashNotNull(row) == row.hash # None

\* Extrinsic: hash and call_index are declared without null=True
ExtrinsicNotNull(row) == row.hash # None /\ row.call_index # None

\* Extrinsic: hash unique (idx is declared without unique=True)
ExtrinsicUnique(tbl, row) == \A e \in tbl : e.hash # row.hash

\* Extrinsic: block references Block.block_id, call_index references Call.call_index;
\* a foreign key that is NULL references nothing and is not checked
ExtrinsicForeignKeys(row, blockTbl, callTbl) ==
    /\ \E b \in blockTbl : b.block_id = row.block
    /\ row.call_index = None \/ \E c \in callTbl : Some(c.call_index) = row.call_index

\* Extrinsic.objects.create(**fields)
ExtrinsicInsert(tbl, fields, blockTbl, callTbl) ==
    LET row == [id |-> NextId(tbl)] @@ fields IN
    IF ~ExtrinsicNotNull(row) THEN Raise("IntegrityError")
    ELSE IF ~ExtrinsicUnique(tbl, row) THEN Raise("IntegrityError")
    ELSE IF ~ExtrinsicForeignKeys(row, blockTbl, callTbl) THEN Raise("IntegrityError")
    ELSE Return(Some(row))

\* ---------------------------------------------------- the chain node
\* call objects as the node decodes them
TimestampSet == [call_index |-> "0x0200", call_function |-> "set",
                 call_module |-> "Timestamp",
                 call_args |-> <<[name |-> "now", value |-> 2500]>>]
AddStake == [call_index |-> "0x0702", call_function |-> "add_stake",
             call_module |-> "SubtensorModule",
             call_args |-> <<[name |-> "amount", value |-> 5],
                             [name |-> "netuid", value |-> 12]>>]
AddStakeRenamed == [call_index |-> "0x0702", call_function |-> "add_stake_limit",
                    call_module |-> "SubtensorModule",
                    call_args |-> <<[name |-> "netuid", value |-> 3]>>]
NoIdentifier == [call_function |-> "remark", call_module |-> "System",
                 call_args |-> <<>>]
EmptyIdentifier == [call_index |-> "", call_function |-> "remark",
                    call_module |-> "System", call_args |-> <<>>]
NoFunction == [call_index |-> "0x0001", call_module |-> "System"]

Extrinsic(h, call) == [kind |-> "extrinsic", value |-> [extrinsic_hash |-> h, call |-> call]]
ExtrinsicNoCall(h) == [kind |-> "extrinsic", value |-> [extrinsic_hash |-> h]]
ExtrinsicNoHash(call) == [kind |-> "extrinsic", value |-> [call |-> call]]
ExtrinsicNoValue == [kind |-> "extrinsic"]

Event(i, id) == [kind |-> "event", value |-> [extrinsic_idx |-> i, event_id |-> id]]
EventNoId(i) == [kind |-> "event", value |-> [extrinsic_idx |-> i]]
EventNoPosition(id) == [kind |-> "event", value |-> [event_id |-> id]]
EventNoValue == [kind |-> "event"]

\* the positions a block of the model can have
Positions == 0..(MaxExt - 1)

\* every shape of extrinsic the pipeline branches on, each with a hash of its own
AllExtrinsics ==
    {Extrinsic("0xe1", AddStake), Extrinsic("0xe2", AddStakeRenamed),
     Extrinsic("0xe3", TimestampSet), Extrinsic("0xe4", NoIdentifier),
     Extrinsic("0xe5", EmptyIdentifier), Extrinsic("0xe6", NoFunction),
     ExtrinsicNoCall("0xe7"), ExtrinsicNoHash(AddStake), ExtrinsicNoValue}

\* every shape of event the scan branches on
AllEvents ==
    {Event(i, id) : i \in Positions, id \in {SuccessId, "ExtrinsicFailed"}}
    \cup {EventNoId(0), EventNoPosition(SuccessId), EventNoValue}

\* well-formed extrinsics: the first two share a call identifier
PlainExtrinsics == <<Extrinsic("0xe1", AddStake), Extrinsic("0xe2", AddStakeRenamed),
                     Extrinsic("0xe3", TimestampSet), Extrinsic("0xe8", AddStake)>>
PlainEvents == <<Event(0, SuccessId)>>

Header(h) == [parentHash |-> <<"parentHash of", h>>, stateRoot |-> <<"stateRoot of", h>>,
              extrinsicsRoot |-> <<"extrinsicsRoot of", h>>]

\* what the node returns for one block number
BlockData(h, exts, evs) ==
    [block_hash |-> h, block |-> [header |-> Header(h), extrinsics |-> exts],
     events |-> evs]

\* a chain of one block, of every shape: every extrinsic shape with plain events,
\* and every event shape with a full block of well-formed extrinsics
OneBlockChains ==
    {[n \in {1} |-> BlockData("0xb1", exts, PlainEvents)] :
        exts \in SeqsUpTo(AllExtrinsics, MaxExt)}
    \cup
    {[n \in {1} |-> BlockData("0xb1", SubSeq(PlainExtrinsics, 1, MaxExt), evs)] :
        evs \in SeqsUpTo(AllEvents, MaxEv)}

\* the two well-formed extrinsics that share a call identifier
SharingExtrinsics == {PlainExtrinsics[1], PlainExtrinsics[2]}

\* a chain of two blocks of well-formed extrinsics, which may share call
\* identifiers and extrinsic hashes, and one (a node gone wrong) whose two blocks
\* carry the same block hash
TwoBlockChains ==
    {(1 :> BlockData("0xb1", exts1, PlainEvents)) @@ (2 :> BlockData("0xb2", exts2, PlainEvents)) :
        exts1 \in [1..MaxExt -> SharingExtrinsics],
        exts2 \in SeqsUpTo(SharingExtrinsics, MaxExt) \ {<<>>}}
    \cup
    {(1 :> BlockData("0xb1", <<PlainExtrinsics[1]>>, PlainEvents))
     @@ (2 :> BlockData("0xb1", <<PlainExtrinsics[2]>>, PlainEvents))}

Chains == OneBlockChains \cup TwoBlockChains

\* call objects that differ only in what the two decoders look at: the module and
\* function names, the first argument, and the place of the "netuid" argument
TimestampSetLater == [call_index |-> "0x0200", call_function |-> "set",
                      call_module |-> "Timestamp",
                      call_args |-> <<[name |-> "now", value |-> 61750]>>]
BalancesSet == [call_index |-> "0x0500", call_function |-> "set",
                call_module |-> "Balances",
                call_args |-> <<[name |-> "who", value |-> 4]>>]
TimestampTouch == [call_index |-> "0x0201", call_function |-> "touch",
                   call_module |-> "Timestamp",
                   call_args |-> <<[name |-> "now", value |-> 9000]>>]
TwoNetuids == [call_index |-> "0x0702", call_function |-> "add_stake",
               call_module |-> "SubtensorModule",
               call_args |-> <<[name |-> "amount", value |-> 5],
                               [name |-> "netuid", value |-> 7],
                               [name |-> "netuid", value |-> 12]>>]

DecodeExtrinsics ==
    {Extrinsic("0xd1", TimestampSet), Extrinsic("0xd2", TimestampSetLater),
     Extrinsic("0xd3", BalancesSet), Extrinsic("0xd4", TimestampTouch),
     Extrinsic("0xd5", TwoNetuids), Extrinsic("0xd6", AddStake),
     Extrinsic("0xd7", AddStakeRenamed)}

\* a chain of one block, of every sequence of these calls
DecodeChains ==
    {[n \in {1} |-> BlockData("0xb1", exts, PlainEvents)] :
        exts \in SeqsUpTo(DecodeExtrinsics, MaxExt)}

\* ------------------------------------------------------------ state
NoError == [exc |-> "", at |-> ""]

Init ==
    /\ chain \in Chains
    /\ blocks = {}
    /\ calls = {}
    /\ extrinsics = {}
    /\ pc = [r \in Runs |-> "main"]
    /\ block_number = [r \in Runs |-> 0]
    /\ block_instance = [r \in Runs |-> None]
    /\ idx = [r \in Runs |-> 0]
    /\ call_type = [r \in Runs |-> {}]
    /\ call_index_instance = [r \in Runs |-> None]
    /\ err = [r \in Runs |-> NoError]

\* an exception nobody catches ends the instance
Abort(r, exc, at) ==
    /\ pc' = [pc EXCEPT ![r] = "aborted"]
    /\ err' = [err EXCEPT ![r] = [exc |-> exc, at |-> at]]

\* the locals of the instance, read from what the node returned
Block(r) == chain[block_number[r]].block
Events(r) == chain[block_number[r]].events
BlockHash(r) == chain[block_number[r]].block_hash
CurrentValue(r) == Block(r).extrinsics[idx[r] + 1].value
CurrentDetails(r) == extract_extrinsic_details(CurrentValue(r)).value
CurrentEvents(r) == extract_extrinsic_events(Events(r), idx[r]).value

\* the fields create_block_record passes to Block.objects.create
BlockFields(n, block, block_hash, block_timestamp) ==
    [block_id |-> n, block_hash |-> block_hash,
     parentHash |-> block.header.parentHash,
     stateRoot |-> block.header.stateRoot,
     extrinsicsRoot |-> block.header.extrinsicsRoot,
     timestamp |-> block_timestamp]

\* get_block_hash, get_block and get_events are three reads of the node; whichever
\* fails, the exception leaves get_block_data and main
FetchFails(r) == Abort(r, "FetchError", "get_block_data")

\* the Block row is written as soon as the block is fetched, before the events are
GetBlockDataWritingEarly(r) ==
    /\ pc[r] = "main"
    /\ \E n \in DOMAIN chain :
         /\ block_number' = [block_number EXCEPT ![r] = n]
         /\ \/ /\ pc' = [pc EXCEPT ![r] = "create_block_record"]
               /\ err' = err
               /\ blocks' = blocks
            \/ /\ FetchFails(r)
               /\ blocks' = blocks
            \/ /\ FetchFails(r)
               /\ LET created == BlockInsert(blocks, BlockFields(n, chain[n].block,
                                                                chain[n].block_hash, None))
                  IN  blocks' = IF created.exc = "" THEN blocks \cup {created.value[1]}
                                ELSE blocks
    /\ UNCHANGED <<chain, calls, extrinsics, block_instance, idx, call_type,
                   call_index_instance>>

\* main: block_number is set, get_block_data is called
GetBlockData(r) ==
    /\ pc[r] = "main"
    /\ \E n \in DOMAIN chain :
         /\ block_number' = [block_number EXCEPT ![r] = n]
         /\ \/ /\ pc' = [pc EXCEPT ![r] = "create_block_record"]
               /\ err' = err
            \/ FetchFails(r)
    /\ UNCHANGED <<chain, blocks, calls, extrinsics, block_instance, idx, call_type,
                   call_index_instance>>

\* main: extract_block_timestamp, then create_block_record
CreateBlockRecord(r) ==
    /\ pc[r] = "create_block_record"
    /\ LET block_timestamp == extract_block_timestamp(Block(r).extrinsics)
           created == BlockInsert(blocks, BlockFields(block_number[r], Block(r),
                                                      BlockHash(r), block_timestamp.value))
       IN  IF block_timestamp.exc # ""
           THEN /\ Abort(r, block_timestamp.exc, "extract_block_timestamp")
                /\ UNCHANGED <<blocks, block_instance>>
           ELSE IF created.exc # ""
           THEN /\ Abort(r, created.exc, "Block.objects.create")
                /\ UNCHANGED <<blocks, block_instance>>
           ELSE /\ blocks' = blocks \cup {created.value[1]}
                /\ block_instance' = [block_instance EXCEPT ![r] = created.value]
                /\ pc' = [pc EXCEPT ![r] = "process_extrinsics"]
                /\ err' = err
    /\ UNCHANGED <<chain, calls, extrinsics, block_number, idx, call_type,
                   call_index_instance>>

\* process_extrinsics: the head of the loop, down to the read of the Call table
ProcessExtrinsic(r) ==
    /\ pc[r] = "process_extrinsics"
    /\ IF idx[r] >= Len(Block(r).extrinsics)
       THEN /\ pc' = [pc EXCEPT ![r] = "done"]
            /\ UNCHANGED <<idx, call_type, call_index_instance, err>>
       ELSE IF ValueOf(Block(r).extrinsics[idx[r] + 1]) = None
       THEN /\ idx' = [idx EXCEPT ![r] = @ + 1]
            /\ UNCHANGED <<pc, call_type, call_index_instance, err>>
       ELSE LET evs == extract_extrinsic_events(Events(r), idx[r])
                details == extract_extrinsic_details(CurrentValue(r))
                call_index == details.value.extrinsic_type[1]
            IN  IF evs.exc # ""
                THEN /\ Abort(r, evs.exc, "extract_extrinsic_events")
                     /\ UNCHANGED <<idx, call_type, call_index_instance>>
                ELSE IF details.exc # ""
                THEN /\ Abort(r, details.exc, "extract_extrinsic_details")
                     /\ UNCHANGED <<idx, call_type, call_index_instance>>
                ELSE /\ call_index_instance' = [call_index_instance EXCEPT ![r] = None]
                     /\ IF Truthy(call_index)
                        THEN /\ call_type' = [call_type EXCEPT ![r] = CallValuesList(calls)]
                             /\ pc' = [pc EXCEPT ![r] =
                                       IF call_index[1] \in CallValuesList(calls)
                                       THEN "call_get" ELSE "call_create"]
                        ELSE /\ call_type' = call_type
                             /\ pc' = [pc EXCEPT ![r] = "extrinsic_create"]
                     /\ UNCHANGED <<idx, err>>
    /\ UNCHANGED <<chain, blocks, calls, extrinsics, block_number, block_instance>>

\* the fields process_extrinsics passes to Call.objects.create
CallFields(extrinsic_type) ==
    [call_index |-> extrinsic_type[1][1], call_function |-> extrinsic_type[2],
     call_module |-> extrinsic_type[3]]

\* Call.objects.update_or_create(call_index=..., defaults=...) in place of create
CallUpdateOrCreate(r) ==
    /\ pc[r] = "call_create"
    /\ LET fields == CallFields(CurrentDetails(r).extrinsic_type)
           found == {c \in calls : c.call_index = fields.call_index}
       IN  /\ calls' = IF found = {} THEN calls \cup {[id |-> NextId(calls)] @@ fields}
                       ELSE (calls \ found)
                            \cup {[id |-> c.id] @@ fields : c \in found}
           /\ pc' = [pc EXCEPT ![r] = "call_get"]
           /\ err' = err
    /\ UNCHANGED <<chain, blocks, extrinsics, block_number, block_instance, idx,
                   call_type, call_index_instance>>

\* process_extrinsics: the identifier was not in the list read, the row is created
CallCreate(r) ==
    /\ pc[r] = "call_create"
    /\ LET created == CallInsert(calls, CallFields(CurrentDetails(r).extrinsic_type)) IN
       IF created.exc # ""
       THEN /\ Abort(r, created.exc, "Call.objects.create")
            /\ calls' = calls
       ELSE /\ calls' = calls \cup {created.value[1]}
            /\ pc' = [pc EXCEPT ![r] = "call_get"]
            /\ err' = err
    /\ UNCHANGED <<chain, blocks, extrinsics, block_number, block_instance, idx,
                   call_type, call_index_instance>>

\* process_extrinsics: Call.objects.get(call_index=call_index)
CallLookup(r) ==
    /\ pc[r] = "call_get"
    /\ LET got == CallGet(calls, CurrentDetails(r).extrinsic_type[1][1]) IN
       IF got.exc # ""
       THEN /\ Abort(r, got.exc, "Call.objects.get")
            /\ call_index_instance' = call_index_instance
       ELSE /\ call_index_instance' = [call_index_instance EXCEPT ![r] = got.value]
            /\ pc' = [pc EXCEPT ![r] = "extrinsic_create"]
            /\ err' = err
    /\ UNCHANGED <<chain, blocks, calls, extrinsics, block_number, block_instance, idx,
                   call_type>>

\* the fields process_extrinsics passes to Extrinsic.objects.create; address,
\* signature, tip, nonce and era are nullable copies of the decoded value and are
\* left out
ExtrinsicFields(extrinsic_value, n, i, block_inst, call_inst, evs, netuid) ==
    [hash |-> Get(extrinsic_value, "extrinsic_hash"),
     netuid |-> netuid,
     block |-> block_inst.block_id,
     idx |-> FormatIdx(n, i),
     call_index |-> IF call_inst = None THEN None ELSE Some(call_inst[1].call_index),
     call_args |-> Get(GetOr(extrinsic_value, "call", EmptyDict), "call_args"),
     result |-> IF evs.success THEN "success" ELSE "failed",
     events |-> evs.events]

\* the rows of the block are written in one transaction, undone when an insert fails
ExtrinsicCreateRollingBack(r) ==
    /\ pc[r] = "extrinsic_create"
    /\ LET fields == ExtrinsicFields(CurrentValue(r), block_number[r], idx[r],
                                     block_instance[r][1], call_index_instance[r],
                                     CurrentEvents(r), CurrentDetails(r).netuid)
           created == ExtrinsicInsert(extrinsics, fields, blocks, calls)
       IN  IF created.exc # ""
           THEN /\ Abort(r, created.exc, "Extrinsic.objects.create")
                /\ extrinsics' = {e \in extrinsics : e.block # block_number[r]}
                /\ blocks' = blocks \ {block_instance[r][1]}
                /\ idx' = idx
           ELSE /\ extrinsics' = extrinsics \cup {created.value[1]}
                /\ blocks' = blocks
                /\ idx' = [idx EXCEPT ![r] = @ + 1]
                /\ pc' = [pc EXCEPT ![r] = "process_extrinsics"]
                /\ err' = err
    /\ UNCHANGED <<chain, calls, block_number, block_instance, call_type,
                   call_index_instance>>

\* process_extrinsics: Extrinsic.objects.create, then the next extrinsic
ExtrinsicCreate(r) ==
    /\ pc[r] = "extrinsic_create"
    /\ LET fields == ExtrinsicFields(CurrentValue(r), block_number[r], idx[r],
                                     block_instance[r][1], call_index_instance[r],
                                     CurrentEvents(r), CurrentDetails(r).netuid)
           created == ExtrinsicInsert(extrinsics, fields, blocks, calls)
       IN  IF created.exc # ""
           THEN /\ Abort(r, created.exc, "Extrinsic.objects.create")
                /\ UNCHANGED <<extrinsics, idx>>
           ELSE /\ extrinsics' = extrinsics \cup {created.value[1]}
                /\ idx' = [idx EXCEPT ![r] = @ + 1]
                /\ pc' = [pc EXCEPT ![r] = "process_extrinsics"]
                /\ err' = err
    /\ UNCHANGED <<chain, blocks, calls, block_number, block_instance, call_type,
                   call_index_instance>>

Next ==
    \E r \in Runs :
        \/ GetBlockData(r)
        \/ CreateBlockRecord(r)
        \/ ProcessExtrinsic(r)
        \/ CallCreate(r)
        \/ CallLookup(r)
        \/ ExtrinsicCreate(r)

Spec == Init /\ [][Next]_vars

\* the same instances over the chains that exercise the two decoders
InitDecode ==
    /\ chain \in DecodeChains
    /\ blocks = {}
    /\ calls = {}
    /\ extrinsics = {}
    /\ pc = [r \in Runs |-> "main"]
    /\ block_number = [r \in Runs |-> 0]
    /\ block_instance = [r \in Runs |-> None]
    /\ idx = [r \in Runs |-> 0]
    /\ call_type = [r \in Runs |-> {}]
    /\ call_index_instance = [r \in Runs |-> None]
    /\ err = [r \in Runs |-> NoError]

SpecDecode == InitDecode /\ [][Next]_vars

\* ------------------------------------------- the persistence layer alone
\* The create operations of the three models, called with any fields a client can
\* build from two blocks of the node: the schema decides what is stored.
PersistenceChain ==
    (1 :> BlockData("0xb1", SubSeq(PlainExtrinsics, 1, MaxExt), PlainEvents))
    @@ (2 :> BlockData("0xb2", <<PlainExtrinsics[1]>>, PlainEvents))

InitPersistence ==
    /\ chain = PersistenceChain
    /\ blocks = {}
    /\ calls = {}
    /\ extrinsics = {}
    /\ pc = [r \in Runs |-> "main"]
    /\ block_number = [r \in Runs |-> 0]
    /\ block_instance = [r \in Runs |-> None]
    /\ idx = [r \in Runs |-> 0]
    /\ call_type = [r \in Runs |-> {}]
    /\ call_index_instance = [r \in Runs |-> None]
    /\ err = [r \in Runs |-> NoError]

\* Block.objects.create with a number and a hash of the node's blocks
PersistBlock ==
    /\ \E n \in DOMAIN chain, m \in DOMAIN chain :
          LET created == BlockInsert(blocks, BlockFields(n, chain[n].block,
                                                         chain[m].block_hash, None))
          IN  blocks' = IF created.exc = "" THEN blocks \cup {created.value[1]} ELSE blocks
    /\ UNCHANGED <<chain, calls, extrinsics, pc, block_number, block_instance, idx,
                   call_type, call_index_instance, err>>

\* Call.objects.create with the call type of an extrinsic of the node
PersistCall ==
    /\ \E n \in DOMAIN chain : \E k \in 1..Len(chain[n].block.extrinsics) :
          LET details == extract_extrinsic_details(chain[n].block.extrinsics[k].value)
              created == CallInsert(calls, CallFields(details.value.extrinsic_type))
          IN  calls' = IF created.exc = "" THEN calls \cup {created.value[1]} ELSE calls
    /\ UNCHANGED <<chain, blocks, extrinsics, pc, block_number, block_instance, idx,
                   call_type, call_index_instance, err>>

\* Extrinsic.objects.create with an extrinsic of the node, a stored Block row, the
\* Call row of its identifier when stored, and any position
PersistExtrinsic ==
    /\ \E n \in DOMAIN chain, i \in Positions, b \in blocks :
       \E k \in 1..Len(chain[n].block.extrinsics) :
          LET extrinsic_value == chain[n].block.extrinsics[k].value
              found == CallGet(calls, extrinsic_value.call.call_index)
              evs == extract_extrinsic_events(chain[n].events, i).value
              netuid == extract_extrinsic_details(extrinsic_value).value.netuid
              created == ExtrinsicInsert(extrinsics,
                             ExtrinsicFields(extrinsic_value, b.block_id, i, b,
                                             found.value, evs, netuid),
                             blocks, calls)
          IN  extrinsics' = IF created.exc = "" THEN extrinsics \cup {created.value[1]}
                            ELSE extrinsics
    /\ UNCHANGED <<chain, blocks, calls, pc, block_number, block_instance, idx,
                   call_type, call_index_instance, err>>

NextPersistence == PersistBlock \/ PersistCall \/ PersistExtrinsic

SpecPersistence == InitPersistence /\ [][NextPersistence]_vars

\* ============================================================ claims
\* the run ended on the exception `exc` raised at `at`
AbortedAt(r, exc, at) == pc[r] = "aborted" /\ err[r] = [exc |-> exc, at |-> at]

\* C1: in every reachable state the Call table holds at most one row per call
\* identifier, whatever the interleaving of the instances.
C1_CallRowsUnique ==
    \A c1, c2 \in calls : c1.call_index = c2.call_index => c1 = c2

\* two instances on different blocks both read the identifier as absent: one
\* inserted it and finished, the insert of the other was refused
C1_Witness ==
    \E r, q \in Runs :
        /\ block_number[r] # block_number[q]
        /\ pc[r] = "done"
        /\ AbortedAt(q, "IntegrityError", "Call.objects.create")
        /\ \E c \in calls : c.call_index \notin call_type[r] \cup call_type[q]

\* C2: a uniqueness conflict on Call creation is non-fatal: no instance ends on
\* the conflict (the loser fetches the existing row and goes on).
C2_CallConflictNonFatal ==
    \A r \in Runs : ~AbortedAt(r, "IntegrityError", "Call.objects.create")

\* the Extrinsic rows of block n
RowsOf(n) == {e \in extrinsics : e.block = n}

\* C3: after a successful ingestion of a block of N entries the position
\* identifiers of its Extrinsic rows are exactly B-0000 .. B-(N-1): N rows, no gap,
\* also when an entry has no decodable value.
C3_PositionsContiguous ==
    \A r \in Runs :
        pc[r] = "done" =>
            LET n == block_number[r]
                N == Len(chain[n].block.extrinsics)
            IN  /\ {e.idx : e \in RowsOf(n)} = {FormatIdx(n, i) : i \in 0..(N - 1)}
                /\ Cardinality(RowsOf(n)) = N

\* block n has an event at position i whose identifier is "ExtrinsicSuccess"
HasSuccessEvent(n, i) ==
    \E k \in 1..Len(chain[n].events) :
        LET event == chain[n].events[k] IN
        /\ "value" \in DOMAIN event
        /\ "extrinsic_idx" \in DOMAIN event.value
        /\ event.value.extrinsic_idx = i
        /\ "event_id" \in DOMAIN event.value
        /\ event.value.event_id = "ExtrinsicSuccess"

\* C4: for every persisted Extrinsic row, result is "success" iff the events of
\* its block at its own position include an "ExtrinsicSuccess" event, else "failed".
C4_ResultFromOwnEvents ==
    \A e \in extrinsics : \A i \in Positions :
        e.idx = FormatIdx(e.block, i) =>
            e.result = IF HasSuccessEvent(e.block, i) THEN "success" ELSE "failed"

\* a row that is "failed" although another position of its block succeeded, and a
\* row that is "success"
C4_Witness ==
    /\ \E e \in extrinsics : \E i, j \in Positions :
          /\ e.idx = FormatIdx(e.block, i)
          /\ i # j
          /\ HasSuccessEvent(e.block, j)
          /\ e.result = "failed"
    /\ \E e \in extrinsics : e.result = "success"

\* C5: an instance that reaches the Block-persist step for a number that already
\* has a Block row ends there on the uniqueness conflict, and the three tables are
\* left as they were.
C5_ReingestionFails ==
    [][\A r \in Runs :
          (/\ pc[r] = "create_block_record"
           /\ pc'[r] # pc[r]
           /\ \E b \in blocks : b.block_id = block_number[r])
          => (/\ pc'[r] = "aborted"
              /\ err'[r] = [exc |-> "IntegrityError", at |-> "Block.objects.create"]
              /\ tables' = tables)]_vars

\* a block was ingested to the end with rows, and a second instance for the same
\* number was refused
C5_Witness ==
    \E r, q \in Runs :
        /\ r # q
        /\ block_number[r] = block_number[q]
        /\ pc[r] = "done"
        /\ RowsOf(block_number[r]) # {}
        /\ AbortedAt(q, "IntegrityError", "Block.objects.create")

\* C6: at most one Block row per number and per hash in every reachable state, and
\* exactly one Block row with key B once an instance for B has completed.
C6_BlockRowsUnique ==
    /\ \A b1, b2 \in blocks :
          (b1.block_id = b2.block_id \/ b1.block_hash = b2.block_hash) => b1 = b2
    /\ \A r \in Runs :
          pc[r] = "done" =>
              Cardinality({b \in blocks : b.block_id = block_number[r]}) = 1

\* one block was ingested, and an instance for another number whose block carries
\* the same hash was refused
C6_Witness ==
    \E r, q \in Runs :
        /\ pc[r] = "done"
        /\ AbortedAt(q, "IntegrityError", "Block.objects.create")
        /\ block_number[r] # block_number[q]
        /\ chain[block_number[r]].block_hash = chain[block_number[q]].block_hash

\* the extrinsic an instance is at has a call identifier that is absent or empty
NoIdentifierHere(r) == ~Truthy(CurrentDetails(r).extrinsic_type[1])

\* the hash of the extrinsic an instance is at can be stored: present and new
HashStorable(r) ==
    /\ Get(CurrentValue(r), "extrinsic_hash") # None
    /\ \A e \in extrinsics : e.hash # Get(CurrentValue(r), "extrinsic_hash")

\* C7: an extrinsic whose call identifier is absent or empty is still persisted,
\* with no Call reference: its insert is not refused.
C7_NoIdentifierStillPersisted ==
    \A r \in Runs :
        (AbortedAt(r, "IntegrityError", "Extrinsic.objects.create") /\ NoIdentifierHere(r))
            => ~HashStorable(r)

\* the call identifier the node gave for the extrinsic at position i of block n
ChainCallIndex(n, i) == chain[n].block.extrinsics[i + 1].value.call.call_index

\* C8: every persisted Extrinsic row references a Call row that is in the table and
\* carries the call identifier of the extrinsic, and a Block row that is in the table.
C8_ReferencesExist ==
    \A e \in extrinsics :
        /\ \E b \in blocks : b.block_id = e.block
        /\ \E c \in calls : e.call_index = Some(c.call_index)
        /\ \A i \in Positions :
              e.idx = FormatIdx(e.block, i) => e.call_index = Some(ChainCallIndex(e.block, i))

\* a row was persisted, and the insert of an extrinsic with no call identifier was
\* refused
C8_Witness ==
    /\ extrinsics # {}
    /\ \E r \in Runs :
          /\ AbortedAt(r, "IntegrityError", "Extrinsic.objects.create")
          /\ NoIdentifierHere(r)
          /\ HashStorable(r)

\* C9: a decode-level anomaly (a missing call function, event identifier or value)
\* never aborts the block: no instance ends on an error of shape.
C9_AnomalyNeverAborts ==
    \A r \in Runs : pc[r] = "aborted" => err[r].exc \notin {"KeyError", "IndexError"}

\* C10: a failure of get_block_hash, get_block or get_events ends the instance at
\* its first step, before it has written anything, and writes nothing itself.
C10_FetchFailureWritesNothing ==
    [][\A r \in Runs :
          (err'[r].exc = "FetchError" /\ err[r].exc # "FetchError")
          => (/\ pc[r] = "main"
              /\ pc'[r] = "aborted"
              /\ block_instance'[r] = None
              /\ tables' = tables)]_vars

\* an instance ended on a failed fetch while the other had written
C10_Witness ==
    \E r, q \in Runs :
        /\ AbortedAt(r, "FetchError", "get_block_data")
        /\ pc[q] = "done"
        /\ blocks # {}

\* the entry at position j of block n has a decoded value
HasValue(n, j) == "value" \in DOMAIN chain[n].block.extrinsics[j + 1]

\* the positions of block n below i whose entry has a decoded value
ValuedBelow(n, i) == {j \in 0..(i - 1) : HasValue(n, j)}

\* C11: a uniqueness conflict on the Extrinsic at position i ends the instance
\* there: the Block row and the rows of the positions before i stay, no row of
\* position i or later exists, and no instance goes past a position it did not store.
C11_ConflictStopsRun ==
    \A r \in Runs :
        /\ AbortedAt(r, "IntegrityError", "Extrinsic.objects.create") =>
              /\ block_instance[r][1] \in blocks
              /\ {e.idx : e \in RowsOf(block_number[r])}
                     = {FormatIdx(block_number[r], j) : j \in ValuedBelow(block_number[r], idx[r])}
        /\ block_instance[r] # None =>
              \A j \in ValuedBelow(block_number[r], idx[r]) :
                  \E e \in RowsOf(block_number[r]) : e.idx = FormatIdx(block_number[r], j)

\* an instance ended at a position after the first because the hash of its
\* extrinsic was already stored; the other instance has written since
C11_Witness ==
    \E r \in Runs :
        /\ AbortedAt(r, "IntegrityError", "Extrinsic.objects.create")
        /\ idx[r] >= 1
        /\ call_index_instance[r] # None
        /\ \E e \in extrinsics : e.hash = Get(CurrentValue(r), "extrinsic_hash")
        /\ RowsOf(block_number[r]) # {}
        /\ \E e \in extrinsics : e.block # block_number[r]

\* the (1-based) places of block n whose extrinsic calls Timestamp.set
TimestampSetPlaces(n) ==
    LET exts == chain[n].block.extrinsics IN
    {j \in 1..Len(exts) :
        /\ "value" \in DOMAIN exts[j]
        /\ "call" \in DOMAIN exts[j].value
        /\ "call_function" \in DOMAIN exts[j].value.call
        /\ "call_module" \in DOMAIN exts[j].value.call
        /\ exts[j].value.call.call_function = "set"
        /\ exts[j].value.call.call_module = "Timestamp"}

\* the instant t is ms milliseconds after the epoch
IsInstantOfMs(t, ms) ==
    /\ t.microseconds \in 0..999999
    /\ t.seconds * 1000000 + t.microseconds = ms * 1000

\* C12: the timestamp of a Block row is the first argument, read as milliseconds
\* since the epoch, of the first extrinsic of the block that calls Timestamp.set;
\* later such extrinsics are ignored; it is absent when the block has none.
C12_TimestampFromFirstSet ==
    \A b \in blocks :
        LET places == TimestampSetPlaces(b.block_id) IN
        IF places = {} THEN b.timestamp = None
        ELSE LET first == CHOOSE j \in places : \A k \in places : j <= k
                 call == chain[b.block_id].block.extrinsics[first].value.call
             IN  /\ b.timestamp # None
                 /\ IsInstantOfMs(b.timestamp[1], call.call_args[1].value)

\* a Block row of a block with two Timestamp.set extrinsics of different values
C12_Witness ==
    \E b \in blocks :
        LET exts == chain[b.block_id].block.extrinsics IN
        /\ Cardinality(TimestampSetPlaces(b.block_id)) = 2
        /\ exts[1].value.call.call_args[1].value # exts[2].value.call.call_args[1].value
        /\ b.timestamp # None

\* is the event of the block one of position i
AtPosition(event, i) ==
    /\ "value" \in DOMAIN event
    /\ "extrinsic_idx" \in DOMAIN event.value
    /\ event.value.extrinsic_idx = i

\* the events of block n at position i, in the order the node gave them
OwnEvents(n, i) ==
    LET own == SelectSeq(chain[n].events, LAMBDA event : AtPosition(event, i))
    IN  [k \in 1..Len(own) |-> own[k].value]

\* C13: the event list of the Extrinsic row of position i is the subsequence of
\* the block's events whose position field is i, in arrival order: none dropped,
\* none added, order kept.
C13_EventsAreOwnSubsequence ==
    \A e \in extrinsics : \A i \in 0..(Len(chain[e.block].block.extrinsics) - 1) :
        e.idx = FormatIdx(e.block, i) => e.events = OwnEvents(e.block, i)

\* a row that stores two different events of its position, in arrival order
C13_Witness ==
    \E e \in extrinsics :
        /\ Len(e.events) = 2
        /\ e.events[1] # e.events[2]
        /\ e.events[1] = chain[e.block].events[1].value

\* C14: the persistence layer refuses a second row with the same key field: no two
\* Block rows share a number or a hash, no two Call rows an identifier, no two
\* Extrinsic rows a hash or a position identifier.
C14_KeyFieldsUnique ==
    /\ \A b1, b2 \in blocks :
          b1 # b2 => b1.block_id # b2.block_id /\ b1.block_hash # b2.block_hash
    /\ \A c1, c2 \in calls : c1 # c2 => c1.call_index # c2.call_index
    /\ \A e1, e2 \in extrinsics : e1 # e2 => e1.hash # e2.hash /\ e1.idx # e2.idx

\* C15: Block rows and Call rows are append-only: no step changes or removes one;
\* when an extrinsic carries an identifier already in the Call table, the instance
\* takes the row already there, and the Extrinsic row written references a Call
\* row that was in the table before the write.
C15_BlocksAndCallsAppendOnly ==
    [][/\ blocks \subseteq blocks'
       /\ calls \subseteq calls'
       /\ \A r \in Runs :
             pc[r] = "call_get" /\ pc'[r] = "extrinsic_create" =>
                 /\ call_index_instance'[r] # None
                 /\ call_index_instance'[r][1] \in calls
                 /\ Some(call_index_instance'[r][1].call_index)
                        = CurrentDetails(r).extrinsic_type[1]
       /\ \A e \in extrinsics' \ extrinsics :
             \E c \in calls : Some(c.call_index) = e.call_index]_vars

\* an Extrinsic row references a Call row whose function name is not the one its
\* own call carries: the row of the identifier was there first and was kept
C15_Witness ==
    \E e \in extrinsics : \E c \in calls :
    \E i \in 0..(Len(chain[e.block].block.extrinsics) - 1) :
        LET extrinsic == chain[e.block].block.extrinsics[i + 1] IN
        /\ e.idx = FormatIdx(e.block, i)
        /\ Some(c.call_index) = e.call_index
        /\ "value" \in DOMAIN extrinsic
        /\ "call" \in DOMAIN extrinsic.value
        /\ "call_function" \in DOMAIN extrinsic.value.call
        /\ c.call_function # Some(extrinsic.value.call.call_function)

\* the (1-based) places of the arguments named "netuid" in the call at position i
\* of block n
NetuidPlaces(n, i) ==
    LET call_args == chain[n].block.extrinsics[i + 1].value.call.call_args IN
    {k \in 1..Len(call_args) : call_args[k].name = "netuid"}

\* C16: the netuid of an Extrinsic row is the value of the first argument of its
\* call named "netuid", wherever it stands among the arguments, and is absent when
\* no argument has that name.
C16_NetuidFromFirstNamedArgument ==
    \A e \in extrinsics : \A i \in 0..(Len(chain[e.block].block.extrinsics) - 1) :
        e.idx = FormatIdx(e.block, i) =>
            LET places == NetuidPlaces(e.block, i)
                call_args == chain[e.block].block.extrinsics[i + 1].value.call.call_args
            IN  IF places = {} THEN e.netuid = None
                ELSE LET first == CHOOSE k \in places : \A l \in places : k <= l
                     IN  e.netuid = Some(call_args[first].value)

\* a row whose call has two arguments named "netuid" of different values, none of
\* them the first argument, next to a row whose call has none
C16_Witness ==
    /\ \E e \in extrinsics : \E i \in 0..(Len(chain[e.block].block.extrinsics) - 1) :
          /\ e.idx = FormatIdx(e.block, i)
          /\ Cardinality(NetuidPlaces(e.block, i)) = 2
          /\ 1 \notin NetuidPlaces(e.block, i)
          /\ e.netuid # None
    /\ \E e \in extrinsics : e.netuid = None

\* C17: when an instance is about to write the Extrinsic row of position i of its
\* block, the Block row is already stored, every stored Extrinsic row of the block
\* has a position below i, and if the call has a non-empty identifier its Call row
\* is already in the table.
C17_WritesInOrder ==
    \A r \in Runs :
        pc[r] = "extrinsic_create" =>
            LET extrinsic_value == chain[block_number[r]].block.extrinsics[idx[r] + 1].value IN
            /\ block_instance[r] # None
            /\ block_instance[r][1] \in blocks
            /\ block_instance[r][1].block_id = block_number[r]
            /\ \A e \in RowsOf(block_number[r]) :
                  \E j \in 0..(idx[r] - 1) : e.idx = FormatIdx(block_number[r], j)
            /\ ("call" \in DOMAIN extrinsic_value
                /\ "call_index" \in DOMAIN extrinsic_value.call
                /\ extrinsic_value.call.call_index # "") =>
                   \E c \in calls : c.call_index = extrinsic_value.call.call_index

\* an instance about to write a row after the first, with the Call row resolved
C17_Witness ==
    \E r \in Runs :
        /\ pc[r] = "extrinsic_create"
        /\ idx[r] >= 1
        /\ RowsOf(block_number[r]) # {}
        /\ call_index_instance[r] # None
        /\ call_index_instance[r][1] \in calls

\* has the instance that created the Block row of n ended
CreatorEnded(n) ==
    \E r \in Runs :
        /\ block_number[r] = n
        /\ block_instance[r] # None
        /\ pc[r] \in {"done", "aborted"}

\* C18: once the instance that created the Block row of B has ended, finished or
\* failed partway, no step adds an Extrinsic row of B: every later instance for B
\* is stopped at the Block-persist step.
C18_PartialBlockNeverCompleted ==
    [][\A n \in DOMAIN chain :
          CreatorEnded(n) => {e \in extrinsics' : e.block = n} = RowsOf(n)]_vars

\* the creator of the Block row failed partway with a row stored and an extrinsic
\* of the block left unstored, and a later instance for the block was stopped at
\* the Block-persist step
C18_Witness ==
    \E r, q \in Runs :
        /\ AbortedAt(r, "IntegrityError", "Extrinsic.objects.create")
        /\ block_instance[r] # None
        /\ RowsOf(block_number[r]) # {}
        /\ Cardinality(RowsOf(block_number[r])) < Len(chain[block_number[r]].block.extrinsics)
        /\ AbortedAt(q, "IntegrityError", "Block.objects.create")
        /\ block_number[q] = block_number[r]

\* C19: of the instances that target one block number at most one creates the
\* Block row; the others never enter the per-extrinsic loop; and no two Extrinsic
\* rows of one block share a position identifier or a hash.
C19_OneWriterPerBlock ==
    /\ \A r, q \in Runs :
          (r # q /\ block_number[r] = block_number[q] /\ block_instance[r] # None) =>
              block_instance[q] = None
    /\ \A r \in Runs :
          block_instance[r] = None =>
              /\ pc[r] \in {"main", "create_block_record", "aborted"}
              /\ idx[r] = 0
    /\ \A e1, e2 \in extrinsics :
          (e1 # e2 /\ e1.block = e2.block) => e1.idx # e2.idx /\ e1.hash # e2.hash

\* two instances target one block: one was stopped at the Block-persist step while
\* the other is inside its loop with a row written and one still to write
C19_Witness ==
    \E r, q \in Runs :
        /\ r # q
        /\ block_number[r] = block_number[q]
        /\ pc[r] = "extrinsic_create"
        /\ RowsOf(block_number[r]) # {}
        /\ AbortedAt(q, "IntegrityError", "Block.objects.create")

====
